---- MODULE Spec2Model ----
(***************************************************************************)
(* Model of ndlib/libcal-gateway-blueprints: the service stack constructor *)
(* (environment composition, endpoint table, shared authorizer, published  *)
(* API url), the QA project and the delivery pipeline.                     *)
(***************************************************************************)
EXTENDS Integers, Sequences, FiniteSets, TLC

VARIABLES
    pc,                 \* position in the app entrypoint / stack constructor
    stage,              \* props.stage
    variant,            \* which stack source is built: "full" or "reduced"
    endpointData,       \* the endpoint table iterated by forEach
    idx,                \* forEach position
    authorizers,        \* TokenAuthorizer instances created so far
    authMethodOptions,  \* the shared method options object
    resources,          \* routing nodes of the RestApi (paths from the root)
    methods,            \* Method constructs: <<resource, httpMethod>>
    bindings,           \* methods added for the descriptors, in order
    ssm,                \* StringParameter constructs written by the stack
    assembly,           \* the synthesized output handed to provisioning
    env,                \* the shared base environment object
    overlays,           \* function-specific environment entries
    envPc,              \* position in the function declarations
    lambdaEnv,          \* environment attached to each declared function
    deployConfigured,   \* pipeline: a target service topology is configured
    stageSeq,           \* pipeline: the stage sequence
    run,                \* pipeline: execution number
    cur,                \* pipeline: ordinal of the stage in progress
    status,             \* pipeline: per-stage status
    execCount,          \* pipeline: how often each stage started in this run
    qaCmd,              \* QA project: next command of the build specification
    qaExit,             \* QA project: exit status of the commands run so far
    notified            \* pipeline: Notify branches fired in this run

topoVars == <<pc, stage, variant, endpointData, idx, authorizers, authMethodOptions,
              resources, methods, bindings, ssm, assembly>>
envVars == <<env, overlays, envPc, lambdaEnv>>
pipeVars == <<deployConfigured, stageSeq, run, cur, status, execCount, qaCmd, qaExit,
              notified>>
vars == <<topoVars, envVars, pipeVars>>

----------------------------------------------------------------------------
(* Bounds *)
MaxEndpoints == 2
MaxOverlay == 2
MaxRuns == 2

----------------------------------------------------------------------------
(* JavaScript object semantics used by the constructor *)

EmptyObject == [k \in {} |-> TRUE]

Has(o, k) == k \in DOMAIN o

\* mutant: a key that is already set keeps its value
SetPropKeepFirst(o, k, v) == [x \in DOMAIN o \cup {k} |-> IF x \in DOMAIN o THEN o[x] ELSE v]

\* o[k] = v of an object literal entry: the later entry wins
SetProp(o, k, v) == [x \in DOMAIN o \cup {k} |-> IF x = k THEN v ELSE o[x]]

\* ...src inside an object literal: copies every own property of src
SpreadInto(o, src) == [x \in DOMAIN o \cup DOMAIN src |-> IF x \in DOMAIN src THEN src[x] ELSE o[x]]

\* entries of a literal, applied left to right: <<"spread", obj>> or <<"prop", k, v>>
RECURSIVE ObjectLiteral(_)
ObjectLiteral(entries) ==
    IF entries = <<>> THEN EmptyObject
    ELSE LET n == Len(entries)
             init == ObjectLiteral(SubSeq(entries, 1, n - 1))
             e == entries[n]
         IN IF e[1] = "spread" THEN SpreadInto(init, e[2]) ELSE SetProp(init, e[2], e[3])

----------------------------------------------------------------------------
(* Stage-scoped parameter paths *)

StageNames == {"dev", "prod"}

\* `/all/libcal-gateway/${props.stage}` as path segments
ParamStorePath(s) == <<"all", "libcal-gateway", s>>

\* `${paramStorePath}/api-url` written by the stack
ApiUrlParameterName(s) == ParamStorePath(s) \o <<"api-url">>

\* `/all/libcal-gateway/${props.stage}` of the QA project
QaParamStorePath(s) == <<"all", "libcal-gateway", s>>

\* API_URL of the QA project: `${paramStorePath}/api-url`
QaApiUrl(s) == QaParamStorePath(s) \o <<"api-url">>

----------------------------------------------------------------------------
(* Endpoint table *)

Variants == {"full", "reduced"}

\* regular (non-templated) paths, as resourceForPath splits them
Paths == {<<"space", "locations">>, <<"space", "bookings">>}
CancelPath == <<"space", "cancel", "{id}">>
HttpMethods == {"GET", "POST", "OPTIONS"}
TableLambdas == {"spaceLocationsLambda", "spaceBookingsLambda"}

EndpointDescriptors ==
    [path : Paths, method : HttpMethods, lambda : TableLambdas, requiresAuth : BOOLEAN]

EndpointTables == UNION {[1..n -> EndpointDescriptors] : n \in 0..MaxEndpoints}

\* the irregular endpoint added after the loop
CancelEndpoint ==
    [path |-> CancelPath, method |-> "POST", lambda |-> "cancelBookingLambda",
     requiresAuth |-> TRUE]

\* every descriptor the constructor resolves, in the order it resolves them
Descriptors == endpointData \o <<CancelEndpoint>>

NoAuthorizer == "none"
JwtAuthorizer == "JwtAuthorizer"

AuthHeader == "method.request.header.Authorization"
PathIdParam == "method.request.path.id"
IntegrationPathId == "integration.request.path.id"

\* const authMethodOptions = { authorizationType, authorizer, requestParameters }
AuthMethodOptions(authorizer) ==
    ObjectLiteral(<< <<"prop", "authorizationType", "CUSTOM">>,
                     <<"prop", "authorizer", authorizer>>,
                     <<"prop", "requestParameters", {AuthHeader}>> >>)

\* mutant: the shared options are passed to every endpoint
MethodOptionsAlwaysAuth(endpoint, authOptions) == authOptions

\* endpoint.requiresAuth ? authMethodOptions : undefined
MethodOptionsFor(endpoint, authOptions) ==
    IF endpoint.requiresAuth THEN authOptions ELSE EmptyObject

\* const cancelMethodOptions = { ...authMethodOptions, requestParameters: {...} }
CancelMethodOptions(authOptions) ==
    ObjectLiteral(<< <<"spread", authOptions>>,
                     <<"prop", "requestParameters", {PathIdParam}>> >>)

\* mutant: the integration options lose the parameter mapping
CancelIntegrationNoMapping ==
    ObjectLiteral(<< <<"prop", "passthroughBehavior", "WHEN_NO_MATCH">> >>)

\* const cancelIntegrationOptions = { passthroughBehavior, requestParameters }
CancelIntegrationOptions ==
    ObjectLiteral(<< <<"prop", "passthroughBehavior", "WHEN_NO_MATCH">>,
                     <<"prop", "requestParameters", {<<IntegrationPathId, PathIdParam>>}>> >>)

\* api.root.resourceForPath(path): the node of every prefix, created when missing
Prefixes(path) == {SubSeq(path, 1, n) : n \in 0..Len(path)}
ResourceForPath(rs, path) == rs \cup Prefixes(path)

\* defaultCorsPreflightOptions: every node created gets an OPTIONS method
CorsPreflight(rs) == {<<r, "OPTIONS">> : r \in rs}

\* mutant: a name that is taken is not noticed
MethodExistsIgnored(ms, path, method) == FALSE

\* mutant: the lookup is keyed by the path alone
MethodExistsAnyVerb(ms, path, method) == \E m \in HttpMethods : <<path, m>> \in ms

\* the Method construct is a child of its resource named by the http method
MethodExists(ms, path, method) == <<path, method>> \in ms

\* the method a resource gets from addMethod(method, integration, options)
NewMethod(path, method, lambda, integrationOptions, options) ==
    [path |-> path, method |-> method, lambda |-> lambda,
     authorizationType |-> IF Has(options, "authorizationType")
                           THEN options.authorizationType ELSE "NONE",
     authorizer |-> IF Has(options, "authorizer") THEN options.authorizer ELSE NoAuthorizer,
     requestParameters |-> IF Has(options, "requestParameters")
                           THEN options.requestParameters ELSE {},
     integrationParameters |-> IF Has(integrationOptions, "requestParameters")
                               THEN integrationOptions.requestParameters ELSE {}]

NoAssembly == [stack |-> FALSE, bindings |-> <<>>, parameters |-> {}]

----------------------------------------------------------------------------
(* App entrypoint and stack constructor *)

InitTopo ==
    /\ pc = "start"
    /\ stage \in StageNames
    /\ variant \in Variants
    /\ endpointData \in EndpointTables
    /\ idx = 1
    /\ authorizers = {}
    /\ authMethodOptions = EmptyObject
    /\ resources = {}
    /\ methods = {}
    /\ bindings = <<>>
    /\ ssm = {}
    /\ assembly = NoAssembly

\* if (lambdaCodePath) { new LibCalGatewayStack(...) }
Start ==
    /\ pc = "start"
    /\ \E lambdaCodePath \in BOOLEAN :
          pc' = IF lambdaCodePath THEN "api" ELSE "constructed"
    /\ UNCHANGED <<stage, variant, endpointData, idx, authorizers, authMethodOptions,
                   resources, methods, bindings, ssm, assembly>>
    /\ UNCHANGED <<envVars, pipeVars>>

\* new apigateway.RestApi(...) with defaultCorsPreflightOptions
NewRestApi ==
    /\ pc = "api"
    /\ resources' = {<<>>}
    /\ methods' = CorsPreflight({<<>>})
    /\ pc' = "authorizer"
    /\ UNCHANGED <<stage, variant, endpointData, idx, authorizers, authMethodOptions,
                   bindings, ssm, assembly>>
    /\ UNCHANGED <<envVars, pipeVars>>

\* const authMethodOptions = { ..., authorizer: new apigateway.TokenAuthorizer(...) }
NewAuthMethodOptions ==
    /\ pc = "authorizer"
    /\ authorizers' = authorizers \cup {JwtAuthorizer}
    /\ authMethodOptions' = AuthMethodOptions(JwtAuthorizer)
    /\ idx' = 1
    /\ pc' = IF Len(endpointData) = 0 THEN "cancel" ELSE "endpoints"
    /\ UNCHANGED <<stage, variant, endpointData, resources, methods, bindings, ssm,
                   assembly>>
    /\ UNCHANGED <<envVars, pipeVars>>

\* one iteration of endpointData.forEach
AddEndpoint ==
    /\ pc = "endpoints"
    /\ idx <= Len(endpointData)
    /\ LET endpoint == endpointData[idx]
           newResources == ResourceForPath(resources, endpoint.path)
           withCors == methods \cup CorsPreflight(newResources \ resources)
           methodOptions == MethodOptionsFor(endpoint, authMethodOptions)
       IN /\ resources' = newResources
          /\ IF MethodExists(withCors, endpoint.path, endpoint.method)
             THEN \* the construct name is taken: addMethod throws, nothing catches it
                  /\ methods' = withCors
                  /\ bindings' = bindings
                  /\ idx' = idx
                  /\ pc' = "error"
             ELSE /\ methods' = withCors \cup {<<endpoint.path, endpoint.method>>}
                  /\ bindings' = Append(bindings,
                        NewMethod(endpoint.path, endpoint.method, endpoint.lambda,
                                  EmptyObject, methodOptions))
                  /\ idx' = idx + 1
                  /\ pc' = IF idx = Len(endpointData) THEN "cancel" ELSE "endpoints"
    /\ UNCHANGED <<stage, variant, endpointData, authorizers, authMethodOptions, ssm,
                   assembly>>
    /\ UNCHANGED <<envVars, pipeVars>>

\* cancelResource.addMethod('POST', ..., cancelMethodOptions)
AddCancel ==
    /\ pc = "cancel"
    /\ LET newResources == ResourceForPath(resources, CancelPath)
           withCors == methods \cup CorsPreflight(newResources \ resources)
       IN /\ resources' = newResources
          /\ IF MethodExists(withCors, CancelPath, "POST")
             THEN /\ methods' = withCors
                  /\ bindings' = bindings
                  /\ pc' = "error"
             ELSE /\ methods' = withCors \cup {<<CancelPath, "POST">>}
                  /\ bindings' = Append(bindings,
                        NewMethod(CancelPath, "POST", CancelEndpoint.lambda,
                                  CancelIntegrationOptions,
                                  CancelMethodOptions(authMethodOptions)))
                  /\ pc' = IF variant = "full" THEN "publish" ELSE "constructed"
    /\ UNCHANGED <<stage, variant, endpointData, idx, authorizers, authMethodOptions, ssm,
                   assembly>>
    /\ UNCHANGED <<envVars, pipeVars>>

\* new StringParameter(this, 'ApiUrlParameter', ...), full stack only
PublishApiUrl ==
    /\ pc = "publish"
    /\ ssm' = ssm \cup {[parameterName |-> ApiUrlParameterName(stage),
                         stringValue |-> "api.url",
                         writer |-> "LibCalGatewayStack"]}
    /\ pc' = "constructed"
    /\ UNCHANGED <<stage, variant, endpointData, idx, authorizers, authMethodOptions,
                   resources, methods, bindings, assembly>>
    /\ UNCHANGED <<envVars, pipeVars>>

\* the app synthesizes what was constructed once the entrypoint has run through
Synth ==
    /\ pc = "constructed"
    /\ assembly' = [stack |-> resources # {}, bindings |-> bindings, parameters |-> ssm]
    /\ pc' = "done"
    /\ UNCHANGED <<stage, variant, endpointData, idx, authorizers, authMethodOptions,
                   resources, methods, bindings, ssm>>
    /\ UNCHANGED <<envVars, pipeVars>>

IdleEnv ==
    /\ env = EmptyObject
    /\ envPc = 0
    /\ overlays = EmptyObject
    /\ lambdaEnv = EmptyObject

IdlePipe ==
    /\ deployConfigured = FALSE
    /\ stageSeq = <<>>
    /\ run = 0
    /\ cur = 0
    /\ status = <<>>
    /\ execCount = <<>>
    /\ qaCmd = 0
    /\ qaExit = <<>>
    /\ notified = <<>>

Init == InitTopo /\ IdleEnv /\ IdlePipe

Next ==
    \/ Start
    \/ NewRestApi
    \/ NewAuthMethodOptions
    \/ AddEndpoint
    \/ AddCancel
    \/ PublishApiUrl
    \/ Synth

Spec == Init /\ [][Next]_vars

----------------------------------------------------------------------------
(* Properties of the endpoint table and the assembled topology *)

PairOf(d) == <<d.path, d.method>>
HasDuplicate(ds) == \E a, b \in 1..Len(ds) : a # b /\ PairOf(ds[a]) = PairOf(ds[b])
UsesOptions(ds) == \E a \in 1..Len(ds) : ds[a].method = "OPTIONS"
TemplateSegments == {"{id}"}
HasTemplate(path) == \E n \in 1..Len(path) : path[n] \in TemplateSegments
PathParameters == {PathIdParam}
PassThrough == <<IntegrationPathId, PathIdParam>>
Constructed == pc \in {"publish", "constructed", "done"} /\ resources # {}

\* C1: every binding of a descriptor with requiresAuth = true, the templated
\* '/space/cancel/{id}' included, has the shared authorizer attached and the
\* Authorization header marked required; the templated one has the path
\* parameter required in addition to the header.
C1_AuthHeaderRequired ==
    \A k \in 1..Len(bindings) :
        Descriptors[k].requiresAuth =>
            /\ bindings[k].authorizer \in authorizers
            /\ AuthHeader \in bindings[k].requestParameters
            /\ (HasTemplate(bindings[k].path) => PathIdParam \in bindings[k].requestParameters)

\* C2: a descriptor list with two descriptors of the same (path, method) never
\* gets past the endpoint loop: the constructor throws, the output holds no
\* binding (not even of the descriptors before the duplicate) and no parameter,
\* and nothing is synthesized for provisioning.
C2_DuplicateFails ==
    HasDuplicate(Descriptors) =>
        /\ assembly = NoAssembly
        /\ ssm = {}
        /\ ~Constructed
        /\ pc # "cancel"
        /\ ~HasDuplicate(bindings)

C2_Witness ==
    /\ pc = "error"
    /\ HasDuplicate(Descriptors)
    /\ Len(bindings) >= 1
    /\ assembly = NoAssembly

\* C3: one topology has exactly one authorizer instance; every binding of a
\* requiresAuth = true descriptor (the templated one included) references that
\* instance, and every binding of a requiresAuth = false descriptor has none.
C3_SharedAuthorizer ==
    /\ Cardinality(authorizers) <= 1
    /\ (Len(bindings) > 0 => Cardinality(authorizers) = 1)
    /\ \A k \in 1..Len(bindings) :
          IF Descriptors[k].requiresAuth
          THEN bindings[k].authorizer \in authorizers
          ELSE bindings[k].authorizer = NoAuthorizer
    /\ \A j, k \in 1..Len(bindings) :
          Descriptors[j].requiresAuth /\ Descriptors[k].requiresAuth
              => bindings[j].authorizer = bindings[k].authorizer

C3_Witness ==
    /\ pc = "done"
    /\ Len(assembly.bindings) = 3
    /\ endpointData[1].requiresAuth
    /\ ~endpointData[2].requiresAuth
    /\ bindings[1].authorizer = bindings[3].authorizer
    /\ bindings[1].authorizer = JwtAuthorizer
    /\ bindings[2].authorizer = NoAuthorizer

\* C4: the binding whose path has a template segment has that path parameter
\* required on the method and passed through to the integration parameter of
\* the same name; no other binding has a required path parameter or a mapping.
C4_PathParameter ==
    /\ \A k \in 1..Len(bindings) :
          IF HasTemplate(bindings[k].path)
          THEN /\ PathIdParam \in bindings[k].requestParameters
               /\ PassThrough \in bindings[k].integrationParameters
          ELSE /\ bindings[k].requestParameters \cap PathParameters = {}
               /\ bindings[k].integrationParameters = {}
    /\ (Constructed => \E k \in 1..Len(bindings) : HasTemplate(bindings[k].path))

C4_Witness ==
    /\ pc = "done"
    /\ Len(assembly.bindings) = 3
    /\ HasTemplate(assembly.bindings[3].path)
    /\ PassThrough \in assembly.bindings[3].integrationParameters
    /\ assembly.bindings[1].requestParameters = {AuthHeader}

C10_UrlPublished ==
    /\ (pc = "done" /\ assembly.stack =>
          /\ Cardinality(assembly.parameters) = 1
          /\ \A p \in assembly.parameters :
                /\ p.parameterName = QaApiUrl(stage)
                /\ p.stringValue = "api.url"
                /\ p.writer = "LibCalGatewayStack"
                /\ \A s \in StageNames \ {stage} : p.parameterName # QaApiUrl(s))
    /\ (ssm # {} => Len(bindings) = Len(Descriptors))

----------------------------------------------------------------------------
(* Environment of the declared functions *)

\* const env = { SENTRY_DSN: ..., ..., API_CLIENT_SECRET: ... }
BaseEnv(s) ==
    ObjectLiteral(<<
        <<"prop", "SENTRY_DSN", <<"ssm">> \o ParamStorePath(s) \o <<"sentry_dsn">> >>,
        <<"prop", "SENTRY_ENVIRONMENT", <<"literal", s>> >>,
        <<"prop", "SENTRY_RELEASE", <<"literal", "props.sentryProject", "@", "props.sentryVersion">> >>,
        <<"prop", "LIBCAL_API_URL", <<"ssm">> \o ParamStorePath(s) \o <<"libcal_api_url">> >>,
        <<"prop", "API_CLIENT_ID", <<"secret", "props.secretsPath", "api_client_id">> >>,
        <<"prop", "API_CLIENT_SECRET", <<"secret", "props.secretsPath", "api_client_secret">> >> >>)

\* the functions in declaration order
FunctionOrder ==
    <<"spaceLocationsLambda", "spaceBookingsLambda", "cancelBookingLambda",
      "hoursLambda", "newEventLambda">>

\* the functions declared with environment: { ...env, <own entries> }
OverlayFunctions == {"hoursLambda", "newEventLambda"}

\* own entries of a function: pairs <<name, value reference>> in literal order
OverlayKeys == {"LIBCAL_API_URL", "LIBCAL_HOURS_WIDGET_URL"}
OverlayValues ==
    {<<"literal", "https://api.contentful.com">>,
     <<"secret", "cfSecretsPath", "management_token">>}
OverlayEntries == UNION {[1..n -> OverlayKeys \X OverlayValues] : n \in 0..MaxOverlay}

RECURSIVE AsProps(_)
AsProps(entries) ==
    IF entries = <<>> THEN <<>>
    ELSE AsProps(SubSeq(entries, 1, Len(entries) - 1))
            \o << <<"prop", entries[Len(entries)][1], entries[Len(entries)][2]>> >>

\* environment: env, or environment: { ...env, KEY: value, ... }
FunctionEnvironment(name, base, own) ==
    IF name \in OverlayFunctions
    THEN ObjectLiteral(<< <<"spread", base>> >> \o AsProps(own[name]))
    ELSE base

InitEnv ==
    /\ envPc = 0
    /\ env = EmptyObject
    /\ overlays \in [OverlayFunctions -> OverlayEntries]
    /\ lambdaEnv = EmptyObject

\* const env = {...}
ComposeEnv ==
    /\ envPc = 0
    /\ env' = BaseEnv(stage)
    /\ envPc' = 1
    /\ UNCHANGED <<overlays, lambdaEnv>>
    /\ UNCHANGED <<topoVars, pipeVars>>

\* new lambda.Function(this, ..., { ..., environment })
DeclareFunction ==
    /\ envPc \in 1..Len(FunctionOrder)
    /\ LET name == FunctionOrder[envPc]
       IN lambdaEnv' = SetProp(lambdaEnv, name, FunctionEnvironment(name, env, overlays))
    /\ envPc' = envPc + 1
    /\ UNCHANGED <<env, overlays>>
    /\ UNCHANGED <<topoVars, pipeVars>>

IdleTopo ==
    /\ pc = "idle"
    /\ stage \in StageNames
    /\ variant = "full"
    /\ endpointData = <<>>
    /\ idx = 1
    /\ authorizers = {}
    /\ authMethodOptions = EmptyObject
    /\ resources = {}
    /\ methods = {}
    /\ bindings = <<>>
    /\ ssm = {}
    /\ assembly = NoAssembly

EnvInit == IdleTopo /\ InitEnv /\ IdlePipe

EnvNext == ComposeEnv \/ DeclareFunction

EnvSpec == EnvInit /\ [][EnvNext]_vars

\* the value an ordered list of entries gives a key: its last entry for it
LastIndex(entries, k) ==
    CHOOSE n \in 1..Len(entries) :
        /\ entries[n][1] = k
        /\ \A m \in (n + 1)..Len(entries) : entries[m][1] # k
KeysOf(entries) == {entries[n][1] : n \in 1..Len(entries)}

\* C6: the environment of a function declared with own entries over the shared
\* base holds, for every key of the own entries, the own value (the last one
\* given); every base key not among them keeps its base value; there are no
\* other keys; and the base, as held by the app and as attached to the
\* functions declared with the base alone, is unchanged by it.
C6_LaterWinsMerge ==
    /\ (envPc >= 1 => env = BaseEnv(stage))
    /\ \A f \in DOMAIN lambdaEnv :
          IF f \in OverlayFunctions
          THEN /\ DOMAIN lambdaEnv[f] = DOMAIN BaseEnv(stage) \cup KeysOf(overlays[f])
               /\ \A k \in KeysOf(overlays[f]) :
                     lambdaEnv[f][k] = overlays[f][LastIndex(overlays[f], k)][2]
               /\ \A k \in DOMAIN BaseEnv(stage) \ KeysOf(overlays[f]) :
                     lambdaEnv[f][k] = BaseEnv(stage)[k]
          ELSE lambdaEnv[f] = BaseEnv(stage)

C6_Witness ==
    /\ envPc = Len(FunctionOrder) + 1
    /\ "LIBCAL_API_URL" \in KeysOf(overlays["hoursLambda"])
    /\ lambdaEnv["hoursLambda"]["LIBCAL_API_URL"] # BaseEnv(stage)["LIBCAL_API_URL"]
    /\ lambdaEnv["hoursLambda"]["SENTRY_DSN"] = BaseEnv(stage)["SENTRY_DSN"]
    /\ "LIBCAL_API_URL" \notin KeysOf(overlays["newEventLambda"])
    /\ lambdaEnv["newEventLambda"]["LIBCAL_API_URL"] = BaseEnv(stage)["LIBCAL_API_URL"]
    /\ lambdaEnv["spaceLocationsLambda"] = BaseEnv(stage)

----------------------------------------------------------------------------
(* QA project: the build specification *)

\* phases.install.commands
InstallCommands ==
    <<"npm install -g newman",
      "echo Ensure that the Newman spec is readable",
      "chmod -R 755 ./tests/postman/*">>

\* phases.build.commands
BuildCommands ==
    <<"echo Beginning tests at date",
      "newman run ./tests/postman/qa_collection.json --env-var libcalGatewayApiUrl=$API_URL">>

QaCommands == InstallCommands \o BuildCommands
TestRunner == Len(QaCommands)

\* exit statuses a command can end with; the two echo commands end with 0
ExitStatuses == {0, 1, 2}
EchoCommands == {2, 4}
ExitStatusesOf(n) == IF n \in EchoCommands THEN {0} ELSE ExitStatuses

\* mutant: the exit status of a command is not looked at
QaStepIgnoresStatus(n, code) == IF n = Len(QaCommands) THEN "succeeded" ELSE "running"

\* the phases run their commands in order; the first non-zero exit status
\* fails the build, and the build succeeds when the last command ended with 0
QaStepOutcome(n, code) ==
    IF code # 0 THEN "failed"
    ELSE IF n = Len(QaCommands) THEN "succeeded" ELSE "running"

----------------------------------------------------------------------------
(* Delivery pipeline *)

\* mutant: the QA gate is part of every pipeline
PipelineStagesAlwaysQa(configured) ==
    <<"Source", "Build">> \o (IF configured THEN <<"DeployService">> ELSE <<>>)
        \o <<"QAGate", "Notify">>

\* Source -> Build -> DeployService(optional) -> QAGate(conditional) -> Notify
PipelineStages(configured) ==
    <<"Source", "Build">> \o (IF configured THEN <<"DeployService", "QAGate">> ELSE <<>>)
        \o <<"Notify">>

\* declared artifact references of the stages
StageOutputs(name) ==
    CASE name = "Source" -> {"source"}
      [] name = "Build" -> {"build"}
      [] name = "DeployService" -> {"gatewayUrl"}
      [] OTHER -> {}

StageInputs(name) ==
    CASE name = "Build" -> {"source"}
      [] name = "DeployService" -> {"build"}
      [] name = "QAGate" -> {"gatewayUrl"}
      [] OTHER -> {}

NotifyOrdinal == Len(stageSeq)
WorkStages == 1..(Len(stageSeq) - 1)
SomeFailed == \E n \in WorkStages : status[n] = "failed"
AllSucceeded == \A n \in WorkStages : status[n] = "succeeded"

FreshStatus(seq) == [n \in 1..Len(seq) |-> "pending"]
FreshCount(seq) == [n \in 1..Len(seq) |-> 0]

InitPipe ==
    /\ deployConfigured \in BOOLEAN
    /\ stageSeq = PipelineStages(deployConfigured)
    /\ run = 1
    /\ cur = 1
    /\ status = FreshStatus(stageSeq)
    /\ execCount = FreshCount(stageSeq)
    /\ qaCmd = 1
    /\ qaExit = <<>>
    /\ notified = <<>>

\* the next stage in ordinal order starts once every earlier stage succeeded
StartStage ==
    /\ cur \in WorkStages
    /\ status[cur] = "pending"
    /\ \A n \in 1..(cur - 1) : status[n] = "succeeded"
    /\ status' = [status EXCEPT ![cur] = "running"]
    /\ execCount' = [execCount EXCEPT ![cur] = @ + 1]
    /\ UNCHANGED <<deployConfigured, stageSeq, run, cur, qaCmd, qaExit, notified>>
    /\ UNCHANGED <<topoVars, envVars>>

\* a running stage other than the QA gate ends in success or in failure
FinishStage ==
    /\ cur \in WorkStages
    /\ status[cur] = "running"
    /\ stageSeq[cur] # "QAGate"
    /\ \E outcome \in {"succeeded", "failed"} :
          /\ status' = [status EXCEPT ![cur] = outcome]
          /\ cur' = IF outcome = "succeeded" THEN cur + 1 ELSE cur
    /\ UNCHANGED <<deployConfigured, stageSeq, run, execCount, qaCmd, qaExit, notified>>
    /\ UNCHANGED <<topoVars, envVars>>

\* the QA gate runs the next command of its build specification
RunQaCommand ==
    /\ cur \in WorkStages
    /\ status[cur] = "running"
    /\ stageSeq[cur] = "QAGate"
    /\ qaCmd \in 1..Len(QaCommands)
    /\ \E code \in ExitStatusesOf(qaCmd) :
          LET outcome == QaStepOutcome(qaCmd, code)
          IN /\ qaExit' = Append(qaExit, code)
             /\ status' = [status EXCEPT ![cur] = outcome]
             /\ qaCmd' = IF outcome = "running" THEN qaCmd + 1 ELSE qaCmd
             /\ cur' = IF outcome = "succeeded" THEN cur + 1 ELSE cur
    /\ UNCHANGED <<deployConfigured, stageSeq, run, execCount, notified>>
    /\ UNCHANGED <<topoVars, envVars>>

\* mutant: Notify is an ordinary last stage, reached on success only
NotifyStageOnSuccessOnly ==
    /\ notified = <<>>
    /\ AllSucceeded
    /\ notified' = <<"success">>
    /\ status' = [status EXCEPT ![NotifyOrdinal] = "succeeded"]
    /\ execCount' = [execCount EXCEPT ![NotifyOrdinal] = @ + 1]
    /\ UNCHANGED <<deployConfigured, stageSeq, run, cur, qaCmd, qaExit>>
    /\ UNCHANGED <<topoVars, envVars>>

\* Notify fires on both paths, its branch selected by the final pipeline status
NotifyStage ==
    /\ notified = <<>>
    /\ SomeFailed \/ AllSucceeded
    /\ notified' = <<IF SomeFailed THEN "failure" ELSE "success">>
    /\ status' = [status EXCEPT ![NotifyOrdinal] = "succeeded"]
    /\ execCount' = [execCount EXCEPT ![NotifyOrdinal] = @ + 1]
    /\ UNCHANGED <<deployConfigured, stageSeq, run, cur, qaCmd, qaExit>>
    /\ UNCHANGED <<topoVars, envVars>>

\* an operator re-runs the pipeline after a run has ended
Rerun ==
    /\ notified # <<>>
    /\ run < MaxRuns
    /\ run' = run + 1
    /\ cur' = 1
    /\ status' = FreshStatus(stageSeq)
    /\ execCount' = FreshCount(stageSeq)
    /\ qaCmd' = 1
    /\ qaExit' = <<>>
    /\ notified' = <<>>
    /\ UNCHANGED <<deployConfigured, stageSeq>>
    /\ UNCHANGED <<topoVars, envVars>>

PipeInit == IdleTopo /\ IdleEnv /\ InitPipe

PipeNext == StartStage \/ FinishStage \/ RunQaCommand \/ NotifyStage \/ Rerun

\* the pipeline runner carries every started run through to its end
PipeSpec ==
    /\ PipeInit
    /\ [][PipeNext]_vars
    /\ WF_vars(StartStage)
    /\ WF_vars(FinishStage)
    /\ WF_vars(RunQaCommand)
    /\ WF_vars(NotifyStage)

OrdinalOf(name) == CHOOSE n \in 1..Len(stageSeq) : stageSeq[n] = name
Included(name) == \E n \in 1..Len(stageSeq) : stageSeq[n] = name
Started(n) == status[n] # "pending"

\* C7: the stage sequence holds QAGate if and only if it holds DeployService,
\* which it does if and only if a service topology is configured; QAGate then
\* directly follows DeployService and every artifact it takes in is put out by
\* an earlier stage, the gateway url by DeployService.
C7_QaGateIffDeploy ==
    /\ Included("QAGate") <=> Included("DeployService")
    /\ Included("DeployService") <=> deployConfigured
    /\ (Included("DeployService") =>
          /\ OrdinalOf("QAGate") = OrdinalOf("DeployService") + 1
          /\ "gatewayUrl" \in StageInputs("QAGate")
          /\ "gatewayUrl" \in StageOutputs("DeployService"))
    /\ \A n \in 1..Len(stageSeq) : \A a \in StageInputs(stageSeq[n]) :
          \E m \in 1..(n - 1) : a \in StageOutputs(stageSeq[m])

C7_Witness ==
    /\ deployConfigured
    /\ Len(stageSeq) = 5
    /\ stageSeq[3] = "DeployService"
    /\ stageSeq[4] = "QAGate"
    /\ status[4] = "running"

QaOrdinal == OrdinalOf("QAGate")
RunnerRan == Len(qaExit) = TestRunner
RunnerFailed == RunnerRan /\ qaExit[TestRunner] # 0

\* what C8 says of every stage: started in ordinal order after all earlier
\* stages succeeded, nothing started after a failure, started at most once in
\* a run, and a failed run notifies failure.
StagesInOrder ==
    /\ \A n \in WorkStages : Started(n) => \A m \in 1..(n - 1) : status[m] = "succeeded"
    /\ \A n \in WorkStages : status[n] = "failed" =>
          \A m \in (n + 1)..(Len(stageSeq) - 1) : status[m] = "pending" /\ execCount[m] = 0
    /\ \A n \in 1..Len(stageSeq) : execCount[n] <= 1
    /\ \A n \in WorkStages : status[n] \in {"pending", "running", "succeeded", "failed"}
    /\ (SomeFailed /\ notified # <<>> => notified = <<"failure">>)

\* C8 as stated: the above, and the QA gate fails exactly when the contract
\* test runner exits non-zero.
C8_QaFailsExactlyOnRunner ==
    /\ StagesInOrder
    /\ (Included("QAGate") => (status[QaOrdinal] = "failed" <=> RunnerFailed))

\* C8 amended: the above, and the QA gate fails exactly when one of the
\* commands of its build specification exits non-zero, the contract test
\* runner being the last of them: a non-zero exit of the runner always fails
\* the gate, and the gate succeeds only after the runner exited with zero.
C8_QaFailsOnAnyCommand ==
    /\ StagesInOrder
    /\ (Included("QAGate") =>
          /\ status[QaOrdinal] = "failed" <=> \E n \in 1..Len(qaExit) : qaExit[n] # 0
          /\ (RunnerFailed => status[QaOrdinal] = "failed")
          /\ (status[QaOrdinal] = "succeeded" => RunnerRan /\ qaExit[TestRunner] = 0))

C8_Witness ==
    /\ Included("QAGate")
    /\ RunnerFailed
    /\ status[QaOrdinal] = "failed"
    /\ notified = <<"failure">>
    /\ run = 2

\* C9: every run reaches Notify, and exactly once: at most one branch fires in
\* a run, the success branch only when every included stage succeeded, the
\* failure branch only when a stage failed, and every run eventually has its
\* one notification.
C9_NotifyOnBothPaths ==
    /\ [](/\ Len(notified) <= 1
          /\ execCount[NotifyOrdinal] = Len(notified)
          /\ (notified = <<"success">> => AllSucceeded)
          /\ (notified = <<"failure">> => SomeFailed))
    /\ \A r \in 1..MaxRuns : (run = r) ~> (run = r /\ Len(notified) = 1)

C9_Witness ==
    /\ Included("QAGate")
    /\ status[QaOrdinal] = "failed"
    /\ notified = <<"failure">>

====
